---- MODULE Spec2Model ----
(***************************************************************************)
(* A model of jout's process-enumeration subsystem (cmd/ps): the three     *)
(* platform collectors (Linux /proc, macOS ps(1), Windows PowerShell CIM), *)
(* their parsing helpers and ps.Run.                                       *)
(*                                                                         *)
(* Go strings are TLA+ strings; a byte of a string is a string of length   *)
(* one.  Go's 0-based half-open slice s[a:b] is Slice(s, a, b).            *)
(***************************************************************************)
EXTENDS Integers, Sequences, FiniteSets, TLC

VARIABLES
    goos,        \* the build's platform: "linux", "darwin" or "windows"
    pc,          \* position of ps.Run / collectProcesses
    userFilter,  \* value of the --user flag ("" when not given)
    passwd,      \* the system identity database (Linux lookups)
    seen,        \* the source items collectProcesses has consumed so far
    rows,        \* Windows: the decoded rows still to be mapped
    procs,       \* the collector's result slice
    err,         \* the error collectProcesses / Run returns ("" is nil)
    exitCode,    \* Run's exit code (-1 while running)
    stdout,      \* what out.JSON printed: <<>> when nothing, else <<list>>
    fault,       \* the failure of the enumeration mechanism, "" when none
    out,         \* Windows: <<the bytes PowerShell printed>>, <<>> before
    arg,         \* the argument of a helper called on its own
    form,        \* the components arg was printed from (kind "raw": none)
    ret          \* what the helper returned

vars ==
    <<goos, pc, userFilter, passwd, seen, rows, procs, err, exitCode, stdout,
      fault, out, arg, form, ret>>

runVars ==
    <<goos, pc, userFilter, passwd, seen, rows, procs, err, exitCode, stdout,
      fault, out>>

callVars == <<arg, form, ret>>

(***************************************************************************)
(* Bounds of the model.                                                    *)
(***************************************************************************)
\* entries of /proc, lines of ps output, rows of the CIM answer
MaxEntries == 2

\* length of the arbitrary strings handed to parseElapsedToSeconds
MaxElapsedLen == 4

\* the most lines a cgroup file of the model has
MaxCgroupLines == 2

(***************************************************************************)
(* strings / strconv                                                       *)
(***************************************************************************)
\* bytes m..n of s (1-based, inclusive), cut to the bytes s has
Sub(s, m, n) ==
    LET lo == IF m < 1 THEN 1 ELSE m
        hi == IF n > Len(s) THEN Len(s) ELSE n
    IN  IF lo > hi THEN "" ELSE SubSeq(s, lo, hi)

Ch(s, i) == Sub(s, i, i)

Slice(s, a, b) == Sub(s, a + 1, b)

\* unicode.IsSpace restricted to the ASCII bytes the inputs use
IsSpace(c) == c \in {" ", "\t", "\n", "\r"}

IsDigit(c) == c \in {"0", "1", "2", "3", "4", "5", "6", "7", "8", "9"}

DigitVal(c) ==
    CASE c = "0" -> 0 [] c = "1" -> 1 [] c = "2" -> 2 [] c = "3" -> 3
      [] c = "4" -> 4 [] c = "5" -> 5 [] c = "6" -> 6 [] c = "7" -> 7
      [] c = "8" -> 8 [] c = "9" -> 9

DigitChar(d) == Ch("0123456789", d + 1)

SetMin(S) == CHOOSE i \in S : \A j \in S : i <= j

SetMax(S) == CHOOSE i \in S : \A j \in S : i >= j

\* strings.TrimSpace
TrimSpace(s) ==
    LET ink == {i \in 1..Len(s) : ~IsSpace(Ch(s, i))}
    IN  IF ink = {} THEN "" ELSE Sub(s, SetMin(ink), SetMax(ink))

\* strings.IndexByte: 0-based index of the first c in s, -1 when absent
IndexByte(s, c) ==
    LET hits == {i \in 1..Len(s) : Ch(s, i) = c}
    IN  IF hits = {} THEN -1
        ELSE SetMin(hits) - 1

\* strings.LastIndexByte
LastIndexByte(s, c) ==
    LET hits == {i \in 1..Len(s) : Ch(s, i) = c}
    IN  IF hits = {} THEN -1
        ELSE SetMax(hits) - 1

\* strings.IndexAny for a set of bytes
IndexAny(s, cs) ==
    LET hits == {i \in 1..Len(s) : Ch(s, i) \in cs}
    IN  IF hits = {} THEN -1
        ELSE SetMin(hits) - 1

HasPrefix(s, p) == Len(s) >= Len(p) /\ Sub(s, 1, Len(p)) = p

\* the fields of s that start at byte i or later (one step per field)
RECURSIVE FieldsFrom(_, _)
FieldsFrom(s, i) ==
    LET ink == {j \in i..Len(s) : ~IsSpace(Ch(s, j))}
    IN  IF ink = {} THEN <<>>
        ELSE LET b   == SetMin(ink)
                 gap == {j \in b..Len(s) : IsSpace(Ch(s, j))}
                 e   == IF gap = {} THEN Len(s) + 1 ELSE SetMin(gap)
             IN  <<Sub(s, b, e - 1)>> \o FieldsFrom(s, e)

\* strings.Fields: the maximal runs of non-space bytes
Fields(s) == FieldsFrom(s, 1)

\* the parts of s from byte i on (one step per part)
RECURSIVE SplitFrom(_, _, _)
SplitFrom(s, sep, i) ==
    LET hits == {j \in i..Len(s) : Ch(s, j) = sep}
    IN  IF hits = {} THEN <<Sub(s, i, Len(s))>>
        ELSE <<Sub(s, i, SetMin(hits) - 1)>> \o SplitFrom(s, sep, SetMin(hits) + 1)

\* strings.Split on a one-byte separator: always at least one part
Split(s, sep) == SplitFrom(s, sep, 1)

RECURSIVE JoinFrom(_, _, _)
JoinFrom(parts, i, sep) ==
    IF i > Len(parts) THEN ""
    ELSE IF i = Len(parts) THEN parts[i]
    ELSE parts[i] \o sep \o JoinFrom(parts, i + 1, sep)

\* strings.Join
Join(parts, sep) == JoinFrom(parts, 1, sep)

AllDigits(s) == \A i \in 1..Len(s) : IsDigit(Ch(s, i))

RECURSIVE DigitsVal(_, _)
DigitsVal(s, acc) ==
    IF s = "" THEN acc ELSE DigitsVal(Tail(s), acc * 10 + DigitVal(Head(s)))

\* strconv.ParseUint(s, 10, _): digits only, no sign
ParseUint(s) ==
    IF s # "" /\ AllDigits(s)
    THEN [ok |-> TRUE, val |-> DigitsVal(s, 0)]
    ELSE [ok |-> FALSE, val |-> 0]

\* strconv.ParseInt(s, 10, 64) and strconv.Atoi: an optional sign, then digits
ParseInt(s) ==
    LET signed == s # "" /\ Head(s) \in {"+", "-"}
        body   == IF signed THEN Tail(s) ELSE s
        mag    == ParseUint(body)
    IN  IF ~mag.ok THEN [ok |-> FALSE, val |-> 0]
        ELSE [ok |-> TRUE,
              val |-> IF signed /\ Head(s) = "-" THEN 0 - mag.val ELSE mag.val]

RECURSIVE UitoaRec(_)
UitoaRec(n) ==
    IF n < 10 THEN DigitChar(n) ELSE UitoaRec(n \div 10) \o DigitChar(n % 10)

\* strconv.Itoa
Itoa(n) == IF n < 0 THEN "-" \o UitoaRec(0 - n) ELSE UitoaRec(n)

(***************************************************************************)
(* bufio.Scanner with the default ScanLines split function                 *)
(***************************************************************************)
DropCR(l) ==
    IF l # "" /\ Ch(l, Len(l)) = "\r" THEN Sub(l, 1, Len(l) - 1) ELSE l

\* the lines sc.Scan() yields for the text s: the final newline ends the last
\* line and opens no empty one
ScanLines(s) ==
    LET parts == Split(s, "\n")
        kept  == IF parts[Len(parts)] = ""
                 THEN SubSeq(parts, 1, Len(parts) - 1)
                 ELSE parts
    IN  [i \in 1..Len(kept) |-> DropCR(kept[i])]

(***************************************************************************)
(* Linux: /proc/[pid]/stat                                                 *)
(* A file read is [err |-> BOOLEAN, data |-> string].                      *)
(***************************************************************************)
\* the value a `v, _ := strconv.Parse...` assignment leaves in v
ValOf(r) == IF r.ok THEN r.val ELSE 0

NoStat ==
    [err |-> "", panic |-> FALSE, ppid |-> 0, state |-> "", comm |-> "",
     utime |-> 0, stime |-> 0, starttime |-> 0, priority |-> 0, nice |-> 0,
     numThreads |-> 0, ttyNr |-> 0]

\* fields is the 1-based image of the Go slice: Go's fields[k] is fields[k + 1].
\* Indexing past the end of the slice panics (index out of range).
readProcStatFields(comm, fields) ==
    IF Len(fields) < 20
    THEN [NoStat EXCEPT !.err = "short /proc/[pid]/stat"]
    ELSE IF Len(fields) < 21
    THEN [NoStat EXCEPT !.panic = TRUE]
    ELSE [err        |-> "",
          panic      |-> FALSE,
          ppid       |-> ValOf(ParseInt(fields[1 + 1])),
          state      |-> fields[0 + 1],
          comm       |-> comm,
          utime      |-> ValOf(ParseUint(fields[(13 - 1) + 1])),
          stime      |-> ValOf(ParseUint(fields[(14 - 1) + 1])),
          starttime  |-> ValOf(ParseUint(fields[(21 - 1) + 1])),
          priority   |-> ValOf(ParseInt(fields[(17 - 1) + 1])),
          nice       |-> ValOf(ParseInt(fields[(18 - 1) + 1])),
          numThreads |-> ValOf(ParseInt(fields[(19 - 1) + 1])),
          ttyNr      |-> ValOf(ParseInt(fields[5 + 1]))]

readProcStat(file) ==
    IF file.err
    THEN [NoStat EXCEPT !.err = "read"]
    ELSE LET s == file.data
             l == IndexByte(s, "(")
             r == LastIndexByte(s, ")")
         IN  IF l < 0 \/ r < 0 \/ r <= l
             THEN [NoStat EXCEPT !.err = "malformed /proc/[pid]/stat"]
             ELSE readProcStatFields(Slice(s, l + 1, r),
                                     Fields(TrimSpace(Slice(s, r + 1, Len(s)))))

(***************************************************************************)
(* Linux: /proc/[pid]/status, identity lookups, state                      *)
(***************************************************************************)
\* the map as the sequence of its assignments m[k] = v, in scan order
readStatusMap(file) ==
    IF file.err THEN <<>>
    ELSE LET lines == ScanLines(file.data)
             colon == {i \in 1..Len(lines) : IndexByte(lines[i], ":") >= 0}
             entry(line) ==
                 LET i == IndexByte(line, ":")
                 IN  [k |-> TrimSpace(Slice(line, 0, i)),
                      v |-> TrimSpace(Slice(line, i + 1, Len(line)))]
         IN  [i \in 1..Len(lines) |->
                 IF i \in colon THEN entry(lines[i]) ELSE [k |-> "", v |-> ""]]

\* status[key]: the last assignment wins, a missing key reads as ""
MapGet(m, key) ==
    LET hits == {i \in 1..Len(m) : m[i].k = key /\ key # ""}
    IN  IF hits = {} THEN ""
        ELSE m[CHOOSE i \in hits : \A j \in hits : i >= j].v

parseFirstUint(v0) ==
    LET v == TrimSpace(v0)
    IN  IF v = "" THEN 0
        ELSE LET i == IndexAny(v, {"\t", " "})
                 w == IF i >= 0 THEN Slice(v, 0, i) ELSE v
             IN  ValOf(ParseUint(w))

\* user.LookupId / user.LookupGroupId against a database of <<id, name>> pairs
LookupId(db, id) ==
    IF \E e \in db : e[1] = id
    THEN [ok |-> TRUE, name |-> (CHOOSE e \in db : e[1] = id)[2]]
    ELSE [ok |-> FALSE, name |-> ""]

\* lookupUserName as it would be if a failed lookup left the name empty
lookupUserName_EmptyOnFailure(db, uid) == LookupId(db.users, Itoa(uid)).name

lookupUserName(db, uid) ==
    LET u == LookupId(db.users, Itoa(uid))
    IN  IF u.ok THEN u.name ELSE Itoa(uid)

lookupGroupName(db, gid) ==
    LET g == LookupId(db.groups, Itoa(gid))
    IN  IF g.ok THEN g.name ELSE Itoa(gid)

normalizeState(s0) ==
    LET s == TrimSpace(s0)
    IN  IF s = "" THEN ""
        ELSE LET c == Slice(s, 0, 1)
             IN  IF c \in {"R", "S", "D", "T", "Z", "I"} THEN c ELSE c

(***************************************************************************)
(* The files /proc serves in a Linux run.                                  *)
(***************************************************************************)
\* a file the collector did not open
NotRead == [err |-> TRUE, data |-> "-"]

Unreadable == [err |-> TRUE, data |-> ""]

\* a complete stat line as procfs prints it: 52 fields, field k (k >= 5)
\* holding the number k
KernelStat(pid, comm, state, ppid) ==
    pid \o " (" \o comm \o ") " \o state \o " " \o ppid
        \o " 5 6 7 8 9 10 11 12 13 14 15 16 17 18 19 20 21 22 23 24 25 26 27 28"
        \o " 29 30 31 32 33 34 35 36 37 38 39 40 41 42 43 44 45 46 47 48 49 50"
        \o " 51 52\n"

GoodStats ==
    {[err |-> FALSE, data |-> KernelStat("1", "systemd", "S", "0")],
     [err |-> FALSE, data |-> KernelStat("2", "(sd pam)", "t", "1")]}

\* unreadable, without parentheses, cut after 6 fields, and cut after the
\* start tick count (20 fields after the comm)
BadStats ==
    {Unreadable,
     [err |-> FALSE, data |-> "1 systemd S 0 1 1\n"],
     [err |-> FALSE, data |-> "1 (systemd) S 0 1 1 0 -1\n"],
     [err |-> FALSE, data |-> "3 (kworker) S 2 0 0 0 -1 69238880 0 0 0 0 0 0 0 0 20 0 1 0 42\n"]}

StatusFiles ==
    {Unreadable,
     [err |-> FALSE,
      data |-> "Name:\tbash\nUid:\t1000\t1000\t1000\t1000\nGid:\t100\t100\t100\t100\nVmRSS:\t   12345 kB\n"]}

\* readProcStat and readStatusMap of the files above, evaluated once
StatOf == [f \in GoodStats \cup BadStats \cup {NotRead} |-> readProcStat(f)]

StatusOf == [f \in StatusFiles \cup {NotRead} |-> readStatusMap(f)]

(***************************************************************************)
(* Linux: readOneProcess                                                   *)
(***************************************************************************)
NoProcess ==
    [pid |-> 0, ppid |-> 0, uid |-> 0, gid |-> 0, user |-> "", group |-> "",
     state |-> "", comm |-> ""]

\* readOneProcess as it would be if the error of readProcStat were dropped
readOneProcess_IgnoresStatError(pid, statFile, statusFile, db) ==
    LET st == StatOf[statFile]
    IN  [err   |-> "",
         panic |-> st.panic,
         p     |-> [NoProcess EXCEPT !.pid = pid, !.ppid = st.ppid, !.user = "0",
                                     !.group = "0", !.comm = st.comm]]

readOneProcess(pid, statFile, statusFile, db) ==
    LET st     == StatOf[statFile]
        status == StatusOf[statusFile]
        uid    == parseFirstUint(MapGet(status, "Uid"))
        gid    == parseFirstUint(MapGet(status, "Gid"))
    IN  IF st.panic THEN [err |-> "", panic |-> TRUE, p |-> NoProcess]
        ELSE IF st.err # "" THEN [err |-> st.err, panic |-> FALSE, p |-> NoProcess]
        ELSE [err   |-> "",
              panic |-> FALSE,
              p     |-> [pid   |-> pid,
                         ppid  |-> st.ppid,
                         uid   |-> uid,
                         gid   |-> gid,
                         user  |-> lookupUserName(db, uid),
                         group |-> lookupGroupName(db, gid),
                         state |-> normalizeState(st.state),
                         comm  |-> st.comm]]

(***************************************************************************)
(* The environment of a Linux run: what /proc serves.                      *)
(***************************************************************************)
\* names os.ReadDir("/proc") may list
DirNames == {"1", "2", "0", "self"}

PasswdDBs ==
    {[users |-> {}, groups |-> {}],
     [users  |-> {<<"0", "root">>, <<"1000", "alice">>},
      groups |-> {<<"0", "root">>, <<"100", "users">>}]}

UserFilters == {"", "alice"}

\* one directory entry together with the files read for it
LinuxItems ==
    LET skipped(name, isDir) ==
            ~isDir \/ ~ParseInt(name).ok \/ ParseInt(name).val <= 0
    IN  {it \in [name : DirNames, isDir : BOOLEAN,
                 stat : GoodStats \cup BadStats \cup {NotRead},
                 status : StatusFiles \cup {NotRead}] :
            IF skipped(it.name, it.isDir)
            THEN it.stat = NotRead /\ it.status = NotRead
            ELSE /\ it.stat # NotRead
                 /\ (it.status = NotRead) <=>
                        (StatOf[it.stat].err # "" \/ StatOf[it.stat].panic)}

(***************************************************************************)
(* macOS: parsing of one line of `ps axo pid=,ppid=,...,etime=,command=`   *)
(***************************************************************************)
firstStateRune(state0) ==
    LET state == TrimSpace(state0)
    IN  IF state = "" THEN ""
        ELSE LET c == Slice(state, 0, 1)
             IN  IF c \in {"R", "S", "D", "T", "Z", "I"} THEN c ELSE c

\* parseElapsedToSeconds as it would be if the day prefix were read as hours
parseElapsedToSeconds_DaysAsHours(s0) ==
    LET s     == TrimSpace(s0)
        i     == IndexByte(s, "-")
        days  == IF i >= 0 THEN ValOf(ParseInt(Slice(s, 0, i))) ELSE 0
        parts == Split(Slice(s, i + 1, Len(s)), ":")
        n     == Len(parts)
    IN  IF s = "" \/ n < 2 \/ n > 3 THEN 0
        ELSE days * 3600 + (IF n = 3 THEN ValOf(ParseInt(parts[1])) * 3600 ELSE 0)
             + ValOf(ParseInt(parts[n - 1])) * 60 + ValOf(ParseInt(parts[n]))

\* parseElapsedToSeconds as it would be if one unparseable component made
\* the whole result 0
parseElapsedToSeconds_ZeroOnBadComponent(s0) ==
    LET s     == TrimSpace(s0)
        i     == IndexByte(s, "-")
        parts == Split(Slice(s, i + 1, Len(s)), ":")
        n     == Len(parts)
        all   == IF i >= 0 THEN <<Slice(s, 0, i)>> \o parts ELSE parts
    IN  IF s = "" \/ n < 2 \/ n > 3 THEN 0
        ELSE IF \E k \in 1..Len(all) : ~ParseInt(all[k]).ok THEN 0
        ELSE (IF i >= 0 THEN ParseInt(Slice(s, 0, i)).val ELSE 0) * 86400
             + (IF n = 3 THEN ParseInt(parts[1]).val * 3600 ELSE 0)
             + ParseInt(parts[n - 1]).val * 60 + ParseInt(parts[n]).val

\* The inputs of the model keep every component within int64, so
\* strconv.ParseInt fails on syntax only and then leaves 0.
parseElapsedToSeconds(s0) ==
    LET s == TrimSpace(s0)
    IN  IF s = "" THEN 0
        ELSE LET i     == IndexByte(s, "-")
                 d     == IF i >= 0 THEN ParseInt(Slice(s, 0, i))
                          ELSE [ok |-> FALSE, val |-> 0]
                 days  == IF d.ok THEN d.val ELSE 0
                 s2    == IF i >= 0 THEN Slice(s, i + 1, Len(s)) ELSE s
                 parts == Split(s2, ":")
             IN  IF Len(parts) < 2 \/ Len(parts) > 3 THEN 0
                 ELSE LET three == Len(parts) = 3
                          h   == IF three THEN ValOf(ParseInt(parts[1])) ELSE 0
                          m   == ValOf(ParseInt(parts[IF three THEN 2 ELSE 1]))
                          sec == ValOf(ParseInt(parts[IF three THEN 3 ELSE 2]))
                      IN  days * 86400 + h * 3600 + m * 60 + sec

\* the body of the scanner loop: skip is TRUE when the line yields no record
darwinLine(text) ==
    LET line   == TrimSpace(text)
        fields == Fields(line)
    IN  IF line = "" \/ Len(fields) < 15
        THEN [skip |-> TRUE, p |-> NoProcess]
        ELSE LET tty == fields[7 + 1]
             IN  [skip |-> FALSE,
                  p |-> [pid     |-> ValOf(ParseInt(fields[0 + 1])),
                         ppid    |-> ValOf(ParseInt(fields[1 + 1])),
                         uid     |-> ValOf(ParseUint(fields[2 + 1])),
                         gid     |-> ValOf(ParseUint(fields[3 + 1])),
                         user    |-> fields[4 + 1],
                         group   |-> fields[5 + 1],
                         state   |-> firstStateRune(fields[6 + 1]),
                         tty     |-> IF tty = "??" \/ tty = "-" THEN "" ELSE tty,
                         comm    |-> fields[8 + 1],
                         cpuUserSeconds |-> parseElapsedToSeconds(fields[9 + 1]),
                         elapsed |-> parseElapsedToSeconds(fields[14 + 1]),
                         command |-> Join(SubSeq(fields, 15 + 1, Len(fields)), " ")]]

(***************************************************************************)
(* The environment of a macOS run: the lines ps prints.                    *)
(***************************************************************************)
PsLine(pid, user, state, tty, etime, command) ==
    "  " \o pid \o "     0     0     0 " \o user \o " wheel " \o state \o " "
         \o tty \o " " \o "launchd" \o " 0:01.50 1024 4096 0 31 " \o etime
         \o " " \o command

DarwinLines ==
    {"",
     "  7 1 0 0 root wheel Ss ?? launchd 0:00.10 8 16 0 31",
     PsLine("0", "root", "Ss", "??", "2-01:02:03", "kernel_task"),
     PsLine("1", "root", "Ss", "??", "01:02:03", "/sbin/launchd"),
     PsLine("1", "alice", "U", "ttys000", "01:02", "-zsh"),
     PsLine("2", "alice", "R+", "ttys001", "00:07", "ps axo pid=")}

LineOf == [l \in DarwinLines |-> darwinLine(l)]

(***************************************************************************)
(* encoding/json: Decoder.Decode with UseNumber, for the JSON the CIM      *)
(* query prints (no escapes inside strings).  A value is                   *)
(*   [t |-> "arr" | "obj" | "num" | "str" | "null" | "bool",               *)
(*    s |-> the literal of a scalar, items |-> elements or members]        *)
(* and a member of an object is [k |-> name, v |-> value].                 *)
(***************************************************************************)
JScalar(t, lit) == [t |-> t, s |-> lit, items |-> <<>>]

JFail == [ok |-> FALSE, v |-> JScalar("null", ""), next |-> 0]

RECURSIVE SkipWS(_, _)
SkipWS(s, i) == IF i <= Len(s) /\ IsSpace(Ch(s, i)) THEN SkipWS(s, i + 1) ELSE i

\* the index after the run of bytes of cs that starts at i
RECURSIVE SkipRun(_, _, _)
SkipRun(s, i, cs) ==
    IF i <= Len(s) /\ Ch(s, i) \in cs THEN SkipRun(s, i + 1, cs) ELSE i

\* the index of the next double quote at or after i, Len(s) + 1 when none
RECURSIVE FindQuote(_, _)
FindQuote(s, i) ==
    IF i <= Len(s) /\ Ch(s, i) # "\"" THEN FindQuote(s, i + 1) ELSE i

NumberBytes == {"0", "1", "2", "3", "4", "5", "6", "7", "8", "9", "-", "+", ".", "e", "E"}

\* a JSON number literal: -?digits(.digits)?
IsJSONNumber(lit) ==
    LET body == IF lit # "" /\ Head(lit) = "-" THEN Tail(lit) ELSE lit
        dot  == IndexByte(body, ".")
        int  == IF dot >= 0 THEN Slice(body, 0, dot) ELSE body
        frac == IF dot >= 0 THEN Slice(body, dot + 1, Len(body)) ELSE "0"
    IN  /\ int # "" /\ AllDigits(int) /\ (Len(int) = 1 \/ Head(int) # "0")
        /\ frac # "" /\ AllDigits(frac)

RECURSIVE JValue(_, _), JElems(_, _, _), JMembers(_, _, _)
\* the value that starts at or after byte i: [ok, v, next]
JValue(s, i0) ==
    LET i == SkipWS(s, i0)
        c == IF i <= Len(s) THEN Ch(s, i) ELSE ""
    IN  IF c = "[" THEN JElems(s, i + 1, <<>>)
        ELSE IF c = "{" THEN JMembers(s, i + 1, <<>>)
        ELSE IF c = "\""
        THEN LET q == FindQuote(s, i + 1)
             IN  IF q > Len(s) THEN JFail
                 ELSE [ok |-> TRUE, v |-> JScalar("str", Sub(s, i + 1, q - 1)),
                       next |-> q + 1]
        ELSE IF c \in NumberBytes
        THEN LET e == SkipRun(s, i, NumberBytes)
             IN  IF IsJSONNumber(Sub(s, i, e - 1))
                 THEN [ok |-> TRUE, v |-> JScalar("num", Sub(s, i, e - 1)), next |-> e]
                 ELSE JFail
        ELSE IF Sub(s, i, i + 3) = "null"
        THEN [ok |-> TRUE, v |-> JScalar("null", ""), next |-> i + 4]
        ELSE IF Sub(s, i, i + 3) = "true"
        THEN [ok |-> TRUE, v |-> JScalar("bool", "true"), next |-> i + 4]
        ELSE IF Sub(s, i, i + 4) = "false"
        THEN [ok |-> TRUE, v |-> JScalar("bool", "false"), next |-> i + 5]
        ELSE JFail

\* the rest of an array, after "[" or after a ","
JElems(s, i0, acc) ==
    LET i == SkipWS(s, i0)
    IN  IF i <= Len(s) /\ Ch(s, i) = "]" /\ acc = <<>>
        THEN [ok |-> TRUE, v |-> [t |-> "arr", s |-> "", items |-> <<>>], next |-> i + 1]
        ELSE LET e == JValue(s, i)
                 j == SkipWS(s, e.next)
             IN  IF ~e.ok \/ j > Len(s) THEN JFail
                 ELSE IF Ch(s, j) = "," THEN JElems(s, j + 1, Append(acc, e.v))
                 ELSE IF Ch(s, j) = "]"
                 THEN [ok |-> TRUE,
                       v |-> [t |-> "arr", s |-> "", items |-> Append(acc, e.v)],
                       next |-> j + 1]
                 ELSE JFail

\* the rest of an object, after "{" or after a ","
JMembers(s, i0, acc) ==
    LET i == SkipWS(s, i0)
    IN  IF i <= Len(s) /\ Ch(s, i) = "}" /\ acc = <<>>
        THEN [ok |-> TRUE, v |-> [t |-> "obj", s |-> "", items |-> <<>>], next |-> i + 1]
        ELSE IF i > Len(s) \/ Ch(s, i) # "\"" THEN JFail
        ELSE LET k == JValue(s, i)
                 c == SkipWS(s, k.next)
             IN  IF ~k.ok \/ c > Len(s) \/ Ch(s, c) # ":" THEN JFail
                 ELSE LET e == JValue(s, c + 1)
                          j == SkipWS(s, e.next)
                          m == Append(acc, [k |-> k.v.s, v |-> e.v])
                      IN  IF ~e.ok \/ j > Len(s) THEN JFail
                          ELSE IF Ch(s, j) = "," THEN JMembers(s, j + 1, m)
                          ELSE IF Ch(s, j) = "}"
                          THEN [ok |-> TRUE,
                                v |-> [t |-> "obj", s |-> "", items |-> m],
                                next |-> j + 1]
                          ELSE JFail

\* dec.Decode(&raw): the first value of the stream; what follows it is not read
Decode(b) == JValue(b, 1)

(***************************************************************************)
(* Windows: helpers of the CIM collector                                   *)
(***************************************************************************)
sanitizeJSON(b) ==
    LET lines  == ScanLines(b)
        trim   == [i \in 1..Len(lines) |-> TrimSpace(lines[i])]
        useful == SelectSeq(trim, LAMBDA l : HasPrefix(l, "{") \/ HasPrefix(l, "["))
    IN  Join(useful, "\n")

\* toSliceOfMaps as it would be without the case of a single object
toSliceOfMaps_DropsSingleObject(v) ==
    IF v.t = "arr" THEN SelectSeq(v.items, LAMBDA e : e.t = "obj") ELSE <<>>

toSliceOfMaps(v) ==
    IF v.t = "arr" THEN SelectSeq(v.items, LAMBDA e : e.t = "obj")
    ELSE IF v.t = "obj" THEN <<v>>
    ELSE <<>>

\* m[k] of a decoded object: the last member named k; absent reads as null
Member(m, k) ==
    LET hits == {i \in 1..Len(m.items) : m.items[i].k = k}
    IN  IF hits = {} THEN JScalar("null", "") ELSE m.items[SetMax(hits)].v

getString(m, k) ==
    LET v == Member(m, k)
    IN  IF v.t \in {"str", "num"} THEN v.s ELSE ""

getInt64(m, k) ==
    LET v == Member(m, k)
    IN  IF v.t = "num" THEN ValOf(ParseInt(v.s))
        ELSE IF v.t = "str" THEN ValOf(ParseInt(TrimSpace(v.s)))
        ELSE 0

getUint64(m, k) == IF getInt64(m, k) > 0 THEN getInt64(m, k) ELSE 0

\* the decoding as it would be if a second failure were taken for no rows
decodeOutput_SwallowsFailure(b) ==
    LET strict == Decode(b)
        again  == Decode(sanitizeJSON(b))
    IN  [err  |-> "",
         rows |-> IF strict.ok THEN toSliceOfMaps(strict.v)
                  ELSE IF again.ok THEN toSliceOfMaps(again.v)
                  ELSE <<>>]

\* the decoding of collectProcesses: strict, then once more over sanitizeJSON
decodeOutput(b) ==
    LET strict == Decode(b)
        again  == Decode(sanitizeJSON(b))
    IN  IF strict.ok THEN [err |-> "", rows |-> toSliceOfMaps(strict.v)]
        ELSE IF again.ok THEN [err |-> "", rows |-> toSliceOfMaps(again.v)]
        ELSE [err |-> "invalid character", rows |-> <<>>]

(***************************************************************************)
(* The environment of a Windows run: what PowerShell prints.               *)
(***************************************************************************)
\* the rows Win32_Process may hold.  pid is the ProcessId as it is printed;
\* an empty cd or user is a property that is $null
WinRows ==
    {[pid |-> "4", ppid |-> 0, name |-> "System", cd |-> "",
      read |-> 0, write |-> 0, user |-> ""],
     [pid |-> "0", ppid |-> 0, name |-> "System Idle Process", cd |-> "",
      read |-> 0, write |-> 0, user |-> ""],
     [pid |-> "\"812\"", ppid |-> 4, name |-> "cmd.exe", cd |-> "20250101120000.000000+000",
      read |-> 4096, write |-> 0, user |-> "alice"],
     [pid |-> "null", ppid |-> 4, name |-> "ghost", cd |-> "",
      read |-> 0, write |-> 0, user |-> ""],
     [pid |-> "900", ppid |-> 4, name |-> "svchost.exe", cd |-> "unknown",
      read |-> 0, write |-> 512, user |-> ""],
     [pid |-> "901", ppid |-> 900, name |-> "pwsh.exe", cd |-> "2025-01-01T12:00:00Z",
      read |-> 7, write |-> 9, user |-> "alice"]}

\* a string property as ConvertTo-Json prints it
QuoteOrNull(x) == IF x = "" THEN "null" ELSE "\"" \o x \o "\""

\* the members of one row, as ConvertTo-Json prints them
MembersOf(r) ==
    <<"\"ProcessId\":  " \o r.pid,
      "\"ParentProcessId\":  " \o Itoa(r.ppid),
      "\"Name\":  " \o QuoteOrNull(r.name),
      "\"CreationDate\":  " \o QuoteOrNull(r.cd),
      "\"ReadTransferCount\":  " \o Itoa(r.read),
      "\"WriteTransferCount\":  " \o Itoa(r.write),
      "\"User\":  " \o QuoteOrNull(r.user)>>

RowMembers == {MembersOf(r) : r \in WinRows}

\* one object over several lines (ConvertTo-Json) or on one line (-Compress)
RenderRow(ms, pretty, indent) ==
    IF pretty
    THEN indent \o "{\n"
         \o Join([i \in 1..Len(ms) |-> indent \o "    " \o ms[i]], ",\n")
         \o "\n" \o indent \o "}"
    ELSE "{" \o Join(ms, ",") \o "}"

RenderArray(rs, pretty) ==
    IF pretty
    THEN "[\n" \o Join([i \in 1..Len(rs) |-> RenderRow(rs[i], TRUE, "    ")], ",\n")
         \o (IF rs = <<>> THEN "" ELSE "\n") \o "]\n"
    ELSE "[" \o Join([i \in 1..Len(rs) |-> RenderRow(rs[i], FALSE, "")], ",") \o "]\n"

RowSeqs == UNION {[1..n -> WinRows] : n \in 0..MaxEntries}

Warnings == {"", "WARNING: the provider is busy\n"}

\* what PowerShell may print, with what it was printed from:
\* c = <<warning, pretty, rows>>
WinResponses ==
    {[form |-> [kind |-> "array", c |-> <<w, pretty, rs>>],
      text |-> w \o RenderArray([i \in 1..Len(rs) |-> MembersOf(rs[i])], pretty)] :
        w \in Warnings, pretty \in BOOLEAN, rs \in RowSeqs}
    \cup {[form |-> [kind |-> "object", c |-> <<w, pretty, <<r>>>>],
           text |-> w \o RenderRow(MembersOf(r), pretty, "") \o "\n"] :
             w \in Warnings, pretty \in BOOLEAN, r \in WinRows}
    \cup {[form |-> [kind |-> "raw", c |-> <<>>], text |-> t] :
             t \in {"", "WARNING: the provider is busy\n", "[WARNING] busy\n[]\n",
                    "{\"ProcessId\":  4\n", "[1,{\"ProcessId\":  4},\"x\"]\n"}}

WinOutputs == {r.text : r \in WinResponses}

DecodedOf == [b \in WinOutputs |-> decodeOutput(b)]

(***************************************************************************)
(* time.Date: an instant is [day |-> days since 1970-01-01 (UTC),          *)
(* sod |-> second of that day, nsec |-> nanoseconds].                      *)
(***************************************************************************)
\* days from 1970-01-01 to the given day of the proleptic Gregorian calendar
DaysFromCivil(y, m, d) ==
    LET yy  == IF m <= 2 THEN y - 1 ELSE y
        era == yy \div 400
        yoe == yy - era * 400
        mp  == IF m > 2 THEN m - 3 ELSE m + 9
        doy == (153 * mp + 2) \div 5 + d - 1
        doe == yoe * 365 + yoe \div 4 - yoe \div 100 + doy
    IN  era * 146097 + doe - 719468

\* time.Date(y, mo, d, h, mi, se, nsec, time.FixedZone("", east)).UTC():
\* out-of-range values are normalised, the zone offset is taken off
GoDate(y, mo, d, h, mi, se, nsec, east) ==
    LET m0   == mo - 1
        year == y + m0 \div 12
        mon  == (m0 % 12) + 1
        secs == h * 3600 + mi * 60 + se - east
    IN  [day  |-> DaysFromCivil(year, mon, 1) + (d - 1) + secs \div 86400,
         sod  |-> secs % 86400,
         nsec |-> nsec]

(***************************************************************************)
(* Windows: parseCIMDateTime                                               *)
(***************************************************************************)
\* time.Time{}: January 1, year 1, 00:00:00 UTC
NoTime == [day |-> DaysFromCivil(1, 1, 1), sod |-> 0, nsec |-> 0]

\* strings.ReplaceAll(s, old, "") for a one-byte old
RemoveAll(s, old) == Join(Split(s, old), "")

Digits == {"0", "1", "2", "3", "4", "5", "6", "7", "8", "9"}

\* the padding loop: for l := len(strconv.Itoa(usec)); l < 6; l++ { usec *= 10 }
RECURSIVE PadUsec(_, _)
PadUsec(usec, l) == IF l < 6 THEN PadUsec(usec * 10, l + 1) ELSE usec

parseCIMDateTime(s0) ==
    LET s == RemoveAll(TrimSpace(s0), "T")
    IN  IF TrimSpace(s0) = "" \/ Len(s) < 14
        THEN [ok |-> FALSE, t |-> NoTime]
        ELSE LET y    == ValOf(ParseInt(Slice(s, 0, 4)))
                 mo   == ValOf(ParseInt(Slice(s, 4, 6)))
                 d    == ValOf(ParseInt(Slice(s, 6, 8)))
                 h    == ValOf(ParseInt(Slice(s, 8, 10)))
                 mi   == ValOf(ParseInt(Slice(s, 10, 12)))
                 se   == ValOf(ParseInt(Slice(s, 12, 14)))
                 rem0 == Slice(s, 14, Len(s))
                 dot  == HasPrefix(rem0, ".")
                 rem1 == IF dot THEN Slice(rem0, 1, Len(rem0)) ELSE rem0
                 nd   == SkipRun(rem1, 1, Digits) - 1
                 read == Slice(rem1, 0, IF nd < 6 THEN nd ELSE 6)
                 raw  == IF dot THEN DigitsVal(read, 0) ELSE 0
                 usec == IF dot THEN PadUsec(raw, Len(Itoa(raw))) ELSE 0
                 rem  == IF dot THEN Slice(rem1, nd, Len(rem1)) ELSE rem0
                 sign == IF Slice(rem, 0, 1) = "-" THEN -1 ELSE 1
                 v    == ParseInt(Slice(rem, 1, 4))
                 offsetMin ==
                     IF Len(rem) >= 4 /\ Slice(rem, 0, 1) \in {"+", "-"} /\ v.ok
                     THEN sign * v.val
                     ELSE 0
             IN  [ok |-> TRUE,
                  t  |-> GoDate(y, mo, d, h, mi, se, usec * 1000, (0 - offsetMin) * 60)]

(***************************************************************************)
(* Windows: one row of the CIM query                                       *)
(***************************************************************************)
\* n in decimal, zero-padded on the left to w digits
RECURSIVE Pad(_, _)
Pad(n, w) ==
    IF w <= 1 \/ Len(Itoa(n)) >= w THEN Itoa(n) ELSE "0" \o Pad(n, w - 1)

\* the civil date <<year, month, day>> of a day counted from 1970-01-01
CivilFromDays(z) ==
    LET zz  == z + 719468
        era == zz \div 146097
        doe == zz - era * 146097
        yoe == (doe - doe \div 1460 + doe \div 36524 - doe \div 146096) \div 365
        doy == doe - (365 * yoe + yoe \div 4 - yoe \div 100)
        mp  == (5 * doy + 2) \div 153
        d   == doy - (153 * mp + 2) \div 5 + 1
        m   == IF mp < 10 THEN mp + 3 ELSE mp - 9
    IN  <<yoe + era * 400 + (IF m <= 2 THEN 1 ELSE 0), m, d>>

\* t.UTC().Format(time.RFC3339) of an instant
FormatRFC3339(t) ==
    LET c == CivilFromDays(t.day)
    IN  (IF c[1] < 0 THEN "-" \o Pad(0 - c[1], 4) ELSE Pad(c[1], 4))
        \o "-" \o Pad(c[2], 2) \o "-" \o Pad(c[3], 2)
        \o "T" \o Pad(t.sod \div 3600, 2) \o ":" \o Pad((t.sod \div 60) % 60, 2)
        \o ":" \o Pad(t.sod % 60, 2) \o "Z"

utcRFC3339(t) == IF t = NoTime THEN "" ELSE FormatRFC3339(t)

\* time.Now() of the run: 2026-01-01T12:00:00Z
Now == [day |-> DaysFromCivil(2026, 1, 1), sod |-> 12 * 3600, nsec |-> 0]

\* a count of seconds too wide for one machine word of the checker is kept
\* as [days, secs], standing for days * 86400 + secs, both of one sign
Seconds(days, secs) == [days |-> days, secs |-> secs]

\* the largest Duration, (2^63 - 1) ns, in whole seconds: 9223372036
MaxDurationSeconds == Seconds(106751, 85636)

\* int64(now.Sub(start).Seconds()): the Duration saturates at +-(2^63 - 1) ns
\* and the conversion truncates toward zero
ElapsedSince(now, start) ==
    LET nn    == now.nsec - start.nsec
        ss    == now.sod - start.sod - (IF nn < 0 THEN 1 ELSE 0)
        frac  == IF nn < 0 THEN nn + 10^9 ELSE nn
        D0    == (now.day - start.day) + ss \div 86400
        S0    == ss % 86400
        \* toward zero: a negative count with a fraction loses one second less
        up    == D0 < 0 /\ frac > 0
        S1    == IF up THEN (S0 + 1) % 86400 ELSE S0
        D1    == IF up /\ S0 + 1 = 86400 THEN D0 + 1 ELSE D0
        max   == MaxDurationSeconds
    IN  IF D1 >= 0
        THEN IF D1 > max.days \/ (D1 = max.days /\ S1 > max.secs) THEN max
             ELSE Seconds(D1, S1)
        ELSE LET md == (0 - D1) - (IF S1 > 0 THEN 1 ELSE 0)
                 ms == IF S1 > 0 THEN 86400 - S1 ELSE 0
             IN  IF md > max.days \/ (md = max.days /\ ms > max.secs)
                 THEN Seconds(0 - max.days, 0 - max.secs)
                 ELSE Seconds(0 - md, 0 - ms)

\* a pointer field of Process: nil, or a pointer to v
Nil == [null |-> TRUE, v |-> 0]

Ptr(v) == [null |-> FALSE, v |-> v]

\* the io block as it would be if it needed both counts to be non-zero
procIO_NeedsBothCounts(readBytes, writeBytes) ==
    IF readBytes # 0 /\ writeBytes # 0
    THEN Ptr([readBytes |-> readBytes, writeBytes |-> writeBytes])
    ELSE Nil

\* var io *ProcIO, set when one of the transfer counts is not zero
procIO(readBytes, writeBytes) ==
    IF readBytes # 0 \/ writeBytes # 0
    THEN Ptr([readBytes |-> readBytes, writeBytes |-> writeBytes])
    ELSE Nil

\* var start time.Time, set when CreationDate is not empty and parses
startOf(cd, r) == IF cd # "" /\ r.ok THEN r.t ELSE NoTime

\* the record built for a row whose start is known
winProcess(m, pid, start, readBytes, writeBytes) ==
    [pid   |-> pid,
     ppid  |-> getInt64(m, "ParentProcessId"),
     uid   |-> 0,
     gid   |-> 0,
     user  |-> getString(m, "User"),
     group |-> "",
     state |-> "",
     tty   |-> "",
     comm  |-> getString(m, "Name"),
     command |-> getString(m, "CommandLine"),
     startTime |-> utcRFC3339(start),
     elapsedSeconds |-> Ptr(IF start # NoTime THEN ElapsedSince(Now, start)
                            ELSE Seconds(0, 0)),
     io |-> procIO(readBytes, writeBytes)]

\* the body of the loop over the rows: skip is TRUE when the row is discarded
winRow(m) ==
    IF getInt64(m, "ProcessId") <= 0 THEN [skip |-> TRUE, p |-> NoProcess]
    ELSE [skip |-> FALSE,
          p |-> winProcess(m, getInt64(m, "ProcessId"),
                           startOf(getString(m, "CreationDate"),
                                   parseCIMDateTime(getString(m, "CreationDate"))),
                           getUint64(m, "ReadTransferCount"),
                           getUint64(m, "WriteTransferCount"))]

\* the loop body applied to each row a response decodes to, evaluated once
RowOf ==
    [m \in UNION {{DecodedOf[b].rows[i] : i \in 1..Len(DecodedOf[b].rows)} : b \in WinOutputs}
        |-> winRow(m)]

(***************************************************************************)
(* Linux: /proc/[pid]/cgroup                                               *)
(***************************************************************************)
HexBytes ==
    {"0", "1", "2", "3", "4", "5", "6", "7", "8", "9",
     "a", "b", "c", "d", "e", "f", "A", "B", "C", "D", "E", "F"}

\* strings.SplitN(line, ":", 3)
SplitN3(line) ==
    LET i    == IndexByte(line, ":")
        rest == Slice(line, i + 1, Len(line))
        j    == IndexByte(rest, ":")
    IN  IF i < 0 THEN <<line>>
        ELSE IF j < 0 THEN <<Slice(line, 0, i), rest>>
        ELSE <<Slice(line, 0, i), Slice(rest, 0, j), Slice(rest, j + 1, Len(rest))>>

\* containerIDRe.FindString(seg) for (?i)[a-f0-9]{12,64}: the leftmost place
\* where 12 hexadecimal bytes follow one another, and from there as many as
\* there are, 64 at most
FindHexToken(seg) ==
    LET starts == {i \in 1..Len(seg) :
                      /\ Ch(seg, i) \in HexBytes
                      /\ i = 1 \/ Ch(seg, i - 1) \notin HexBytes
                      /\ SkipRun(seg, i, HexBytes) - i >= 12}
    IN  IF starts = {} THEN ""
        ELSE LET i == SetMin(starts)
                 n == SkipRun(seg, i, HexBytes) - i
             IN  Sub(seg, i, i + (IF n > 64 THEN 64 ELSE n) - 1)

\* the loop of extractContainerID over the segments from the k-th on
RECURSIVE BestToken(_, _, _)
BestToken(segs, k, best) ==
    IF k > Len(segs) THEN best
    ELSE LET m == FindHexToken(segs[k])
         IN  BestToken(segs, k + 1, IF m # "" /\ Len(m) > Len(best) THEN m ELSE best)

extractContainerID(path) == BestToken(Split(path, "/"), 1, "")

NoCgroups == [cgroup |-> Nil, cgroups |-> Nil, containerID |-> Nil]

\* the scanner loop of readCgroups from the k-th line on;
\* acc = [all, primary, cid]
RECURSIVE CgroupLines(_, _, _)
CgroupLines(lines, k, acc) ==
    IF k > Len(lines) THEN acc
    ELSE LET parts == SplitN3(lines[k])
             path  == parts[3]
             id    == extractContainerID(path)
         IN  IF Len(parts) # 3 THEN CgroupLines(lines, k + 1, acc)
             ELSE CgroupLines(lines, k + 1,
                     [all     |-> Append(acc.all, path),
                      primary |-> IF acc.primary.null /\ path # ""
                                  THEN Ptr(path) ELSE acc.primary,
                      cid     |-> IF acc.cid.null /\ id # ""
                                  THEN Ptr(id) ELSE acc.cid])

readCgroups(file) ==
    IF file.err THEN NoCgroups
    ELSE LET r == CgroupLines(ScanLines(file.data), 1,
                              [all |-> <<>>, primary |-> Nil, cid |-> Nil])
         IN  IF Len(r.all) = 0
             THEN [cgroup |-> Nil, cgroups |-> Nil, containerID |-> r.cid]
             ELSE [cgroup |-> r.primary, cgroups |-> Ptr(r.all), containerID |-> r.cid]

(***************************************************************************)
(* Arguments for the helpers that are called on their own.                 *)
(***************************************************************************)
NoForm == [kind |-> "none", c |-> <<>>]

NoRet ==
    [done |-> FALSE, ok |-> FALSE, val |-> 0, t |-> NoTime, st |-> NoStat,
     cg |-> NoCgroups]

\* an elapsed time as ps prints it; c = <<days, hours, minutes, seconds>>
FormatElapsed(f) ==
    (IF f.kind = "dhms" THEN Itoa(f.c[1]) \o "-" ELSE "")
    \o (IF f.kind \in {"dhms", "hms"} THEN Pad(f.c[2], 2) \o ":" ELSE "")
    \o Pad(f.c[3], 2) \o ":" \o Pad(f.c[4], 2)

ElapsedForms ==
    {[kind |-> "dhms", c |-> <<d, h, m, x>>] :
        d \in {1, 2, 10}, h \in {0, 1, 23}, m \in {0, 2, 59}, x \in {0, 3, 59}}
    \cup {[kind |-> "hms", c |-> <<0, h, m, x>>] :
        h \in {0, 1, 23}, m \in {0, 2, 59}, x \in {0, 3, 59}}
    \cup {[kind |-> "ms", c |-> <<0, 0, m, x>>] : m \in {0, 1, 59}, x \in {0, 2, 59}}

ElapsedAlphabet == {"1", "2", ":", "-", "x", " "}

RECURSIVE StringsUpTo(_, _)
StringsUpTo(alphabet, n) ==
    IF n = 0 THEN {""}
    ELSE LET shorter == StringsUpTo(alphabet, n - 1)
         IN  shorter \cup {s \o c : s \in shorter, c \in alphabet}

ElapsedStrings == StringsUpTo(ElapsedAlphabet, MaxElapsedLen)

\* a CIM datetime as WMI prints it;
\* c = <<year, month, day, hour, minute, second, microseconds, offset minutes>>
FormatCIM(f) ==
    Pad(f.c[1], 4) \o Pad(f.c[2], 2) \o Pad(f.c[3], 2) \o Pad(f.c[4], 2)
    \o Pad(f.c[5], 2) \o Pad(f.c[6], 2) \o "." \o Pad(f.c[7], 6)
    \o (IF f.c[8] < 0 THEN "-" \o Pad(0 - f.c[8], 3) ELSE "+" \o Pad(f.c[8], 3))

CIMForms ==
    {[kind |-> "cim", c |-> <<date[1], date[2], date[3], hms[1], hms[2], hms[3], us, off>>] :
        date \in {<<2025, 1, 1>>, <<2024, 2, 29>>, <<1999, 12, 31>>},
        hms \in {<<0, 0, 0>>, <<12, 0, 0>>, <<23, 59, 59>>},
        us \in {0, 123, 123456, 500000},
        off \in {0, 60, 330, -300}}

\* a stat line as fs/proc/array.c prints it, from the values of the fields
\* readProcStat is after; c = <<comm, state, ppid, tty_nr, utime, stime,
\* priority, nice, num_threads, starttime>>.  The other fields hold values
\* of their own: pgrp 501, session 502, tpgid -1, flags 4194560, minflt 110,
\* cminflt 111, majflt 112, cmajflt 113, cutime 116, cstime 117,
\* itrealvalue 0, vsize 223000, rss 24, and 0 from field 25 on.
FormatStat(f) ==
    "4242 (" \o f.c[1] \o ") " \o f.c[2] \o " " \o Itoa(f.c[3]) \o " 501 502 "
        \o Itoa(f.c[4]) \o " -1 4194560 110 111 112 113 "
        \o Itoa(f.c[5]) \o " " \o Itoa(f.c[6]) \o " 116 117 "
        \o Itoa(f.c[7]) \o " " \o Itoa(f.c[8]) \o " " \o Itoa(f.c[9]) \o " 0 "
        \o Itoa(f.c[10]) \o " 223000 24"
        \o " 0 0 0 0 0 0 0 0 0 0 0 0 0 0 0 0 0 0 0 0 0 0 0 0 0 0 0 0\n"

StatForms ==
    {[kind |-> "stat",
      c |-> <<comm, state, ppid, tty, utime, 30, prio, nice, threads, 4200>>] :
        comm \in {"bash", "Web Content", "(sd-pam)", "a) R 9 (b"},
        state \in {"S", "R"}, ppid \in {1, 77}, tty \in {0, 34816},
        utime \in {0, 150}, prio \in {20, -51}, nice \in {0, -20},
        threads \in {1, 4}}

\* a CIM datetime with a fraction of any length; c = <<digits, offset>>
FormatCIMFraction(f) == "20250101120000." \o f.c[1] \o f.c[2]

CIMFractionForms ==
    {[kind |-> "frac", c |-> <<d, off>>] :
        d \in {"5", "50", "05", "120", "000123", "123456", "000000", "999999",
               "1234567", "12345678", "0000019"},
        off \in {"", "+000", "+060", "-300"}}

\* the paths of the lines of a cgroup file
CgroupPaths ==
    {"", "/",
     "/user.slice/user-1000.slice/session-3.scope",
     "/docker/0123456789abcdef0123456789abcdef0123456789abcdef0123456789abcdef",
     "/kubepods/besteffort/pod0a1b2c3d-e4f5-6789-abcd-ef0123456789/fedcba9876543210fedcba9876543210fedcba9876543210fedcba9876543210",
     "/system.slice/docker-0123456789AB.scope",
     "/lxc/aaaaaaaaaaaa-bbbbbbbbbbbbbbbb",
     "/kubepods.slice:cri-containerd:fedcba9876543210"}

\* a cgroup file as the kernel prints it: hierarchy id, controllers, path;
\* c = the paths of its lines
FormatCgroup(f) ==
    Join([k \in 1..Len(f.c) |->
             Itoa(Len(f.c) - k) \o ":"
                 \o (IF k = Len(f.c) THEN "" ELSE "cpu,cpuacct") \o ":" \o f.c[k] \o "\n"],
         "")

CgroupForms ==
    {[kind |-> "cgroup", c |-> ps] :
        ps \in UNION {[1..n -> CgroupPaths] : n \in 0..MaxCgroupLines}}

\* other contents: lines that are not id:controllers:path
CgroupStrings == {"junk\n", "0:/one-colon\n", "\n\n"}

CIMStrings ==
    {"", "   ", "2025", "2025010112000", "20250101T12000", "abcdefghijklmn",
     "2025-01-01 12:00:00", "20250101120000", " 20250101T120000 ",
     "20250101120000.5", "20250101120000.5+060", "20250101120000.1234567-300",
     "20250101120000+060", "**************.******+***"}

(***************************************************************************)
(* ps.Run and the collectProcesses of each platform                        *)
(***************************************************************************)
Init ==
    /\ goos \in {"linux", "darwin", "windows"}
    /\ pc = "parse"
    /\ userFilter = ""
    /\ passwd \in IF goos = "linux" THEN PasswdDBs ELSE {[users |-> {}, groups |-> {}]}
    /\ seen = <<>>
    /\ rows = <<>>
    /\ procs = <<>>
    /\ err = ""
    /\ exitCode = -1
    /\ stdout = <<>>
    /\ fault = ""
    /\ out = <<>>
    /\ arg = ""
    /\ form = NoForm
    /\ ret = NoRet

\* Run: fs.Parse(args)
ParseFlags ==
    /\ pc = "parse"
    /\ \/ /\ pc' = "done"
          /\ exitCode' = 2
          /\ UNCHANGED userFilter
       \/ /\ \E f \in UserFilters : userFilter' = f
          /\ pc' = "collect"
          /\ UNCHANGED exitCode
    /\ UNCHANGED <<goos, passwd, seen, rows, procs, err, stdout, fault, out>>
    /\ UNCHANGED callVars

\* collectProcesses: os.ReadDir("/proc")
LinuxReadDir ==
    /\ goos = "linux"
    /\ pc = "collect"
    /\ \/ /\ fault' = "readdir"
          /\ err' = "readdir /proc"
          /\ pc' = "collected"
       \/ /\ pc' = "loop"
          /\ UNCHANGED <<fault, err>>
    /\ UNCHANGED <<goos, userFilter, passwd, seen, rows, procs, exitCode, stdout, out>>
    /\ UNCHANGED callVars

\* one iteration of the loop over the entries
LinuxEntry ==
    /\ goos = "linux"
    /\ pc = "loop"
    /\ Len(seen) < MaxEntries
    /\ \E it \in LinuxItems :
          /\ \A i \in 1..Len(seen) : seen[i].name # it.name
          /\ seen' = Append(seen, it)
          /\ LET pid == ParseInt(it.name)
             IN  IF ~it.isDir \/ ~pid.ok \/ pid.val <= 0
                 THEN UNCHANGED <<procs, pc>>
                 ELSE LET r == readOneProcess(pid.val, it.stat, it.status, passwd)
                      IN  IF r.panic THEN pc' = "panic" /\ UNCHANGED procs
                          ELSE IF r.err # "" THEN UNCHANGED <<procs, pc>>
                          ELSE procs' = Append(procs, r.p) /\ UNCHANGED pc
    /\ UNCHANGED <<goos, userFilter, passwd, rows, err, exitCode, stdout, fault, out>>
    /\ UNCHANGED callVars

\* the listing is exhausted: return procs, nil
LinuxReturn ==
    /\ goos = "linux"
    /\ pc = "loop"
    /\ pc' = "collected"
    /\ UNCHANGED <<goos, userFilter, passwd, seen, rows, procs, err, exitCode, stdout, fault, out>>
    /\ UNCHANGED callVars

\* collectProcesses: exec.Command("ps", "axo", spec).Output()
DarwinExec ==
    /\ goos = "darwin"
    /\ pc = "collect"
    /\ \/ /\ fault' = "exec"
          /\ err' = "exit status 1"
          /\ pc' = "collected"
       \/ /\ pc' = "loop"
          /\ UNCHANGED <<fault, err>>
    /\ UNCHANGED <<goos, userFilter, passwd, seen, rows, procs, exitCode, stdout, out>>
    /\ UNCHANGED callVars

\* one iteration of the scanner loop
DarwinLine ==
    /\ goos = "darwin"
    /\ pc = "loop"
    /\ Len(seen) < MaxEntries
    /\ \E l \in DarwinLines :
          /\ seen' = Append(seen, l)
          /\ procs' = IF LineOf[l].skip THEN procs ELSE Append(procs, LineOf[l].p)
    /\ UNCHANGED <<goos, pc, userFilter, passwd, rows, err, exitCode, stdout, fault, out>>
    /\ UNCHANGED callVars

\* scanner.Scan() returned false: scanner.Err() decides
DarwinReturn ==
    /\ goos = "darwin"
    /\ pc = "loop"
    /\ pc' = "collected"
    /\ \/ /\ fault' = "scan"
          /\ err' = "bufio.Scanner: token too long"
          /\ procs' = <<>>
       \/ UNCHANGED <<fault, err, procs>>
    /\ UNCHANGED <<goos, userFilter, passwd, seen, rows, exitCode, stdout, out>>
    /\ UNCHANGED callVars

\* collectProcesses: run PowerShell and decode what it printed
WinQuery ==
    /\ goos = "windows"
    /\ pc = "collect"
    /\ \/ /\ fault' = "exec"
          /\ err' = "failed to query processes via PowerShell CIM"
          /\ pc' = "collected"
          /\ UNCHANGED <<out, rows>>
          /\ UNCHANGED form
       \/ \E r \in WinResponses :
             /\ out' = <<r.text>>
             /\ form' = r.form
             /\ IF DecodedOf[r.text].err # ""
                THEN /\ fault' = "decode"
                     /\ err' = DecodedOf[r.text].err
                     /\ pc' = "collected"
                     /\ UNCHANGED rows
                ELSE /\ rows' = DecodedOf[r.text].rows
                     /\ pc' = "loop"
                     /\ UNCHANGED <<fault, err>>
    /\ UNCHANGED <<goos, userFilter, passwd, seen, procs, exitCode, stdout>>
    /\ UNCHANGED <<arg, ret>>

\* one iteration of the loop over the rows
WinRow ==
    /\ goos = "windows"
    /\ pc = "loop"
    /\ rows # <<>>
    /\ seen' = Append(seen, Head(rows))
    /\ rows' = Tail(rows)
    /\ procs' = IF RowOf[Head(rows)].skip THEN procs
                ELSE Append(procs, RowOf[Head(rows)].p)
    /\ UNCHANGED <<goos, pc, userFilter, passwd, err, exitCode, stdout, fault, out>>
    /\ UNCHANGED callVars

\* the rows are exhausted: return procs, nil
WinReturn ==
    /\ goos = "windows"
    /\ pc = "loop"
    /\ rows = <<>>
    /\ pc' = "collected"
    /\ UNCHANGED <<goos, userFilter, passwd, seen, rows, procs, err, exitCode, stdout, fault, out>>
    /\ UNCHANGED callVars

\* the --user filter as it would be if it compared nothing
FilterUser_KeepsAll(ps, f) == SelectSeq(ps, LAMBDA p : TRUE)

\* the --user filter of Run
FilterUser(ps, f) == SelectSeq(ps, LAMBDA p : p.user = f)

\* Run after collectProcesses returned
RunFinish ==
    /\ pc = "collected"
    /\ pc' = "done"
    /\ IF err # ""
       THEN exitCode' = 1 /\ UNCHANGED stdout
       ELSE /\ stdout' = <<IF userFilter # "" THEN FilterUser(procs, userFilter) ELSE procs>>
            /\ exitCode' = 0
    /\ UNCHANGED <<goos, userFilter, passwd, seen, rows, procs, err, fault, out>>
    /\ UNCHANGED callVars

Next ==
    \/ ParseFlags
    \/ LinuxReadDir
    \/ LinuxEntry
    \/ LinuxReturn
    \/ DarwinExec
    \/ DarwinLine
    \/ DarwinReturn
    \/ WinQuery
    \/ WinRow
    \/ WinReturn
    \/ RunFinish

Spec == Init /\ [][Next]_vars

(***************************************************************************)
(* The helpers called on their own, on arguments of bounded size.          *)
(***************************************************************************)
Idle ==
    /\ goos = "none"
    /\ pc = "idle"
    /\ userFilter = ""
    /\ passwd = [users |-> {}, groups |-> {}]
    /\ seen = <<>>
    /\ rows = <<>>
    /\ procs = <<>>
    /\ err = ""
    /\ exitCode = -1
    /\ stdout = <<>>
    /\ fault = ""
    /\ out = <<>>

InitElapsed ==
    /\ Idle
    /\ ret = NoRet
    /\ \/ /\ form \in ElapsedForms
          /\ arg = FormatElapsed(form)
       \/ /\ form = [kind |-> "raw", c |-> <<>>]
          /\ arg \in ElapsedStrings

CallParseElapsed ==
    /\ ~ret.done
    /\ ret' = [NoRet EXCEPT !.done = TRUE, !.ok = TRUE, !.val = parseElapsedToSeconds(arg)]
    /\ UNCHANGED <<arg, form>>
    /\ UNCHANGED runVars

NextElapsed == CallParseElapsed

SpecElapsed == InitElapsed /\ [][NextElapsed]_vars

InitStat ==
    /\ Idle
    /\ ret = NoRet
    /\ form \in StatForms
    /\ arg = FormatStat(form)

CallReadProcStat ==
    /\ ~ret.done
    /\ LET r == readProcStat([err |-> FALSE, data |-> arg])
       IN  ret' = [NoRet EXCEPT !.done = TRUE, !.ok = (r.err = "" /\ ~r.panic), !.st = r]
    /\ UNCHANGED <<arg, form>>
    /\ UNCHANGED runVars

NextStat == CallReadProcStat

SpecStat == InitStat /\ [][NextStat]_vars

InitCgroups ==
    /\ Idle
    /\ ret = NoRet
    /\ \/ /\ form \in CgroupForms
          /\ arg = FormatCgroup(form)
       \/ /\ form = [kind |-> "raw", c |-> <<>>]
          /\ arg \in CgroupStrings
       \/ /\ form = [kind |-> "unreadable", c |-> <<>>]
          /\ arg = ""

CallReadCgroups ==
    /\ ~ret.done
    /\ ret' = [NoRet EXCEPT
                  !.done = TRUE,
                  !.ok = (form.kind # "unreadable"),
                  !.cg = readCgroups([err |-> form.kind = "unreadable", data |-> arg])]
    /\ UNCHANGED <<arg, form>>
    /\ UNCHANGED runVars

NextCgroups == CallReadCgroups

SpecCgroups == InitCgroups /\ [][NextCgroups]_vars

InitCIM ==
    /\ Idle
    /\ ret = NoRet
    /\ \/ /\ form \in CIMForms
          /\ arg = FormatCIM(form)
       \/ /\ form \in CIMFractionForms
          /\ arg = FormatCIMFraction(form)
       \/ /\ form = [kind |-> "raw", c |-> <<>>]
          /\ arg \in CIMStrings

CallParseCIM ==
    /\ ~ret.done
    /\ LET r == parseCIMDateTime(arg)
       IN  ret' = [NoRet EXCEPT !.done = TRUE, !.ok = r.ok, !.t = r.t]
    /\ UNCHANGED <<arg, form>>
    /\ UNCHANGED runVars

NextCIM == CallParseCIM

SpecCIM == InitCIM /\ [][NextCIM]_vars

(***************************************************************************)
(* Properties                                                              *)
(***************************************************************************)
Returned == pc \in {"collected", "done"}

StateLetters == {"R", "S", "D", "T", "Z", "I"}

\* C1: every record collectProcesses has produced, on every platform, has
\* pid > 0.
C1_PidPositive == \A i \in 1..Len(procs) : procs[i].pid > 0

\* C2: no two records of one collectProcesses call have the same pid.
C2_PidsUnique ==
    \A i, j \in 1..Len(procs) : i # j => procs[i].pid # procs[j].pid

\* C3: the state of every record is empty or one of the letters R, S, D, T,
\* Z, I.
C3_StateLetter ==
    \A i \in 1..Len(procs) : procs[i].state \in StateLetters \cup {""}

\* a listed entry that names a process: a directory with a positive number
ProcessEntry(it) ==
    it.isDir /\ it.name # "" /\ AllDigits(it.name) /\ DigitsVal(it.name, 0) > 0

\* the entries whose stat file is a readable, complete kernel line
ReadableEntries == SelectSeq(seen, LAMBDA it : ProcessEntry(it) /\ it.stat \in GoodStats)

\* C4: Linux: the records are, in listing order, exactly the processes whose
\* stat file is readable and well-formed: a process whose stat file cannot
\* be read has no record, every readable one has, and collectProcesses
\* returns without error (unless the listing itself failed).
C4_UnreadableStatSkipped ==
    goos = "linux" =>
        /\ Len(procs) = Len(ReadableEntries)
        /\ \A k \in 1..Len(procs) :
              procs[k].pid = DigitsVal(ReadableEntries[k].name, 0)
        /\ (Returned /\ fault = "") => err = ""

C4_Witness ==
    /\ goos = "linux"
    /\ pc = "collected"
    /\ err = ""
    /\ Len(seen) = 2
    /\ seen[1].name = "1" /\ seen[1].isDir /\ seen[1].stat = Unreadable
    /\ seen[2].name = "2" /\ seen[2].stat \in GoodStats
    /\ Len(procs) = 1
    /\ procs[1].pid = 2

\* the enumeration mechanism failed: the listing or the command failed, the
\* scan failed, or neither decoding of the PowerShell output succeeds
EnumerationFailed ==
    \/ fault \in {"readdir", "exec", "scan"}
    \/ /\ out # <<>>
       /\ ~Decode(out[1]).ok
       /\ ~Decode(sanitizeJSON(out[1])).ok

\* C5: when the enumeration mechanism fails, collectProcesses returns an
\* error and no records, and Run returns 1 without printing any JSON.
C5_EnumerationFailure ==
    EnumerationFailed =>
        /\ Returned
        /\ err # ""
        /\ procs = <<>>
        /\ pc = "done" => (exitCode = 1 /\ stdout = <<>>)

C5_Witness ==
    /\ goos = "windows"
    /\ pc = "done"
    /\ out = <<"WARNING: the provider is busy\n">>
    /\ exitCode = 1
    /\ stdout = <<>>

\* s is the decimal string of n: digits only, no leading zero, value n
IsDecimalOf(s, n) ==
    /\ s # ""
    /\ AllDigits(s)
    /\ Len(s) = 1 \/ Head(s) # "0"
    /\ DigitsVal(s, 0) = n

Unknown(db, id) == \A e \in db : ~IsDecimalOf(e[1], id)

\* C6: Linux: when the lookup of a record's uid (gid) fails, its user
\* (group) is the decimal string of that id, never empty, and the record is
\* kept: every readable process still has its record.
C6_LookupFallback ==
    goos = "linux" =>
        /\ Len(procs) = Len(ReadableEntries)
        /\ \A i \in 1..Len(procs) :
              /\ Unknown(passwd.users, procs[i].uid)
                    => IsDecimalOf(procs[i].user, procs[i].uid)
              /\ Unknown(passwd.groups, procs[i].gid)
                    => IsDecimalOf(procs[i].group, procs[i].gid)

C6_Witness ==
    /\ goos = "linux"
    /\ passwd.users = {}
    /\ Len(procs) = 1
    /\ procs[1].uid = 1000 /\ procs[1].user = "1000"
    /\ procs[1].gid = 100 /\ procs[1].group = "100"

\* C7: for an input printed as [[DD-]HH:]MM:SS, parseElapsedToSeconds
\* returns days*86400 + hours*3600 + minutes*60 + seconds, an omitted day or
\* hour counting as 0.
C7_ElapsedGrammar ==
    (ret.done /\ form.kind \in {"dhms", "hms", "ms"}) =>
        ret.val = form.c[1] * 86400 + form.c[2] * 3600 + form.c[3] * 60 + form.c[4]

C7_Witness ==
    /\ ret.done
    /\ form.kind = "dhms"
    /\ arg = "2-01:02:03"
    /\ ret.val = 176523

\* x is a decimal number: one or more digits
IsNumber(x) == x # "" /\ AllDigits(x)

\* s matches [[DD-]HH:]MM:SS
MatchesElapsedGrammar(s) ==
    LET p == Split(s, ":")
        q == Split(p[1], "-")
    IN  \/ Len(p) = 2 /\ IsNumber(p[1]) /\ IsNumber(p[2])
        \/ /\ Len(p) = 3 /\ IsNumber(p[2]) /\ IsNumber(p[3])
           /\ \/ IsNumber(p[1])
              \/ Len(q) = 2 /\ IsNumber(q[1]) /\ IsNumber(q[2])

\* C8 as claimed: parseElapsedToSeconds returns 0 for every input that does
\* not match [[DD-]HH:]MM:SS.
C8_MalformedIsZero ==
    (ret.done /\ ~MatchesElapsedGrammar(arg)) => ret.val = 0

\* the value of a component: its number when it is an optionally signed
\* decimal number, else 0
ComponentValue(x) ==
    LET body == IF x # "" /\ Head(x) \in {"+", "-"} THEN Tail(x) ELSE x
    IN  IF ~IsNumber(body) THEN 0
        ELSE IF Head(x) = "-" THEN 0 - DigitsVal(body, 0) ELSE DigitsVal(body, 0)

\* C8 (amended): parseElapsedToSeconds always returns a number.  With the
\* text up to the first '-' taken as the day component, it returns 0 when the
\* rest is not 2 or 3 parts separated by ':' (such as "abc"); otherwise a
\* component that is not a decimal number counts as 0 and the others count
\* as in the grammar.
C8_Total ==
    ret.done =>
        LET s     == TrimSpace(arg)
            dash  == IndexByte(s, "-")
            days  == IF dash >= 0 THEN ComponentValue(Slice(s, 0, dash)) ELSE 0
            parts == Split(Slice(s, dash + 1, Len(s)), ":")
            n     == Len(parts)
        IN  /\ ret.val \in Int
            /\ n \notin {2, 3} => ret.val = 0
            /\ n \in {2, 3} =>
                  ret.val = days * 86400
                            + (IF n = 3 THEN ComponentValue(parts[1]) * 3600 ELSE 0)
                            + ComponentValue(parts[n - 1]) * 60
                            + ComponentValue(parts[n])

C8_Witness ==
    /\ ret.done
    /\ arg = "1:x"
    /\ ~MatchesElapsedGrammar(arg)
    /\ ret.val = 60

\* the instant a wall-clock time, a microsecond count and an offset of the
\* zone from UTC in minutes denote: UTC = wall clock - offset
InstantOf(c) ==
    LET secs == c[4] * 3600 + c[5] * 60 + c[6] - c[8] * 60
    IN  [day  |-> DaysFromCivil(c[1], c[2], c[3]) + secs \div 86400,
         sod  |-> secs % 86400,
         nsec |-> c[7] * 1000]

\* C9: a value yyyyMMddHHmmss.ffffff+-UUU parses to the instant of its
\* wall-clock time and microseconds in the zone UUU minutes from UTC.
C9_ExactInstant ==
    (ret.done /\ form.kind = "cim") => (ret.ok /\ ret.t = InstantOf(form.c))

\* the 14 bytes parseCIMDateTime reads the date and time from
CIMPrefix(s) == Slice(RemoveAll(TrimSpace(s), "T"), 0, 14)

\* C10: parseCIMDateTime reports success only when the date/time prefix is
\* 14 digits.
C10_PrefixDigits ==
    (ret.done /\ ret.ok) => (Len(CIMPrefix(arg)) = 14 /\ AllDigits(CIMPrefix(arg)))

\* the rows of the response that have a positive ProcessId, in order
KeptRows == SelectSeq(form.c[3], LAMBDA r : r.pid \in {"4", "\"812\"", "900", "901"})

\* the response was printed from rows and has been decoded
RowsDecoded == goos = "windows" /\ form.kind \in {"array", "object"} /\ fault = ""

\* cd is a DMTF datetime: it starts with the 14 digits yyyyMMddHHmmss
IsCIMDateTime(cd) == Len(cd) >= 14 /\ AllDigits(Slice(cd, 0, 14))

\* C11: Windows: a record whose row has no CreationDate, or one that is not a
\* DMTF datetime, has an empty start_time and no elapsed_seconds (nil).
C11_NoStartNoElapsed ==
    RowsDecoded =>
        \A i \in 1..Len(procs) :
            ~IsCIMDateTime(KeptRows[i].cd) =>
                procs[i].startTime = "" /\ procs[i].elapsedSeconds.null

\* the rows decoded from the response: those consumed, then those left
DecodedRows == seen \o rows

\* C12: Windows: a response that is one JSON object decodes to exactly one
\* row, and one that is an array of N rows to exactly N rows in the order of
\* the array.
C12_RowSequence ==
    RowsDecoded =>
        /\ form.kind = "object" => Len(DecodedRows) = 1
        /\ Len(DecodedRows) = Len(form.c[3])
        /\ \A i \in 1..Len(DecodedRows) :
              /\ DecodedRows[i].t = "obj"
              /\ Member(DecodedRows[i], "Name").s = form.c[3][i].name

C12_Witness ==
    /\ RowsDecoded
    /\ form.kind = "array"
    /\ pc = "loop"
    /\ seen = <<>>
    /\ Len(rows) = 2
    /\ Member(rows[1], "Name").s = "cmd.exe"
    /\ Member(rows[2], "Name").s = "System"

\* C13: Windows: a response that is one warning line followed by a valid
\* JSON array is decoded on the retry over sanitizeJSON's output, and the
\* rows are those of the array.
C13_SanitizedRetry ==
    (goos = "windows" /\ form.kind = "array" /\ form.c[1] # "") =>
        /\ ~Decode(out[1]).ok
        /\ fault = ""
        /\ Len(DecodedRows) = Len(form.c[3])
        /\ \A i \in 1..Len(DecodedRows) :
              Member(DecodedRows[i], "Name").s = form.c[3][i].name

\* C14: Windows: the io block of a record is nil exactly when the row's
\* ReadTransferCount and WriteTransferCount are both zero; otherwise it is
\* present and holds the two counts of the row.
C14_IOBlock ==
    RowsDecoded =>
        \A i \in 1..Len(procs) :
            /\ procs[i].io.null <=> (KeptRows[i].read = 0 /\ KeptRows[i].write = 0)
            /\ ~procs[i].io.null =>
                  procs[i].io.v = [readBytes  |-> KeptRows[i].read,
                                   writeBytes |-> KeptRows[i].write]

C14_Witness ==
    /\ RowsDecoded
    /\ Len(procs) = 2
    /\ procs[1].pid = 4 /\ procs[1].io.null
    /\ procs[2].pid = 900 /\ ~procs[2].io.null
    /\ procs[2].io.v = [readBytes |-> 0, writeBytes |-> 512]

\* the positions of the collected records whose user is the --user value
Matching == {i \in 1..Len(procs) : procs[i].user = userFilter}

\* the k-th smallest element of a set of numbers
Kth(S, k) == CHOOSE i \in S : Cardinality({j \in S : j < i}) = k - 1

\* C15: Run with a --user value prints exactly the collected records whose
\* user equals that value, once each, in collected order; without a --user
\* value it prints every collected record.
C15_UserFilter ==
    (pc = "done" /\ exitCode = 0) =>
        /\ Len(stdout) = 1
        /\ userFilter = "" => stdout[1] = procs
        /\ userFilter # "" =>
              /\ Len(stdout[1]) = Cardinality(Matching)
              /\ \A k \in 1..Len(stdout[1]) : stdout[1][k] = procs[Kth(Matching, k)]

C15_Witness ==
    /\ pc = "done"
    /\ exitCode = 0
    /\ userFilter = "alice"
    /\ Len(procs) = 2
    /\ procs[1].user = "root"
    /\ procs[2].user = "alice"
    /\ stdout = <<<<procs[2]>>>>

\* C16: Linux: readProcStat never aborts the run: whatever the stat files
\* hold, the run does not panic, and the records are those of the processes
\* whose stat file is a complete line.
C16_NeverAborts ==
    goos = "linux" =>
        /\ pc # "panic"
        /\ Len(procs) = Len(ReadableEntries)

\* C17: for a stat line in the kernel layout, readProcStat returns the comm
\* and the values of the fields state (3), ppid (4), tty_nr (7), utime (14),
\* stime (15), priority (18), nice (19), num_threads (20), starttime (22).
C17_FieldsExtracted ==
    (ret.done /\ form.kind = "stat") =>
        /\ ret.ok
        /\ ret.st.comm = form.c[1]
        /\ ret.st.state = form.c[2]
        /\ ret.st.ppid = form.c[3]
        /\ ret.st.ttyNr = form.c[4]
        /\ ret.st.utime = form.c[5]
        /\ ret.st.stime = form.c[6]
        /\ ret.st.priority = form.c[7]
        /\ ret.st.nice = form.c[8]
        /\ ret.st.numThreads = form.c[9]
        /\ ret.st.starttime = form.c[10]

\* the microseconds a fraction denotes: its first six digits, with zeros
\* added on the right when there are fewer
Microseconds(d) == DigitsVal(Sub(d \o "000000", 1, 6), 0)

\* C18: a fraction of k digits d counts d * 10^(6-k) microseconds, leading
\* zeros kept; digits after the sixth are dropped, and the date, time and
\* offset are read as they are without the fraction.
C18_Fraction ==
    (ret.done /\ form.kind = "frac") =>
        /\ ret.ok
        /\ ret.t.nsec = Microseconds(form.c[1]) * 1000
        /\ LET plain == parseCIMDateTime("20250101120000" \o form.c[2]).t
           IN  ret.t.day = plain.day /\ ret.t.sod = plain.sod

\* the hexadecimal tokens of a path: where a run of 12 or more hexadecimal
\* bytes starts
TokenStarts(path) ==
    {i \in 1..Len(path) :
        /\ Ch(path, i) \in HexBytes
        /\ i = 1 \/ Ch(path, i - 1) \notin HexBytes
        /\ SkipRun(path, i, HexBytes) - i >= 12}

\* the length of the token that starts at i, 64 at most
TokenLen(path, i) ==
    LET n == SkipRun(path, i, HexBytes) - i IN IF n > 64 THEN 64 ELSE n

\* the longest token of a path, the first of them when several are as long
LongestToken(path) ==
    IF TokenStarts(path) = {} THEN ""
    ELSE LET i == CHOOSE a \in TokenStarts(path) :
                      \A b \in TokenStarts(path) :
                          \/ TokenLen(path, a) > TokenLen(path, b)
                          \/ TokenLen(path, a) = TokenLen(path, b) /\ a <= b
         IN  Sub(path, i, i + TokenLen(path, i) - 1)

\* C19: for a cgroup file of lines id:controllers:path, cgroups is the
\* paths in file order, cgroup the first path that is not empty, and
\* container_id the longest hexadecimal token of the first path that has
\* one, or nil.
C19_Cgroups ==
    (ret.done /\ form.kind = "cgroup") =>
        LET paths    == form.c
            nonEmpty == {k \in 1..Len(paths) : paths[k] # ""}
            withId   == {k \in 1..Len(paths) : LongestToken(paths[k]) # ""}
        IN  /\ IF paths = <<>> THEN ret.cg.cgroups.null
               ELSE ret.cg.cgroups = Ptr(paths)
            /\ IF nonEmpty = {} THEN ret.cg.cgroup.null
               ELSE ret.cg.cgroup = Ptr(paths[SetMin(nonEmpty)])
            /\ IF withId = {} THEN ret.cg.containerID.null
               ELSE ret.cg.containerID = Ptr(LongestToken(paths[SetMin(withId)]))

====
